---- MODULE Spec2Model ----
(***************************************************************************)
(* BaseObjectSerializer of speckle-py                                      *)
(* (src/speckle/serialization/base_object_serializer.py).                  *)
(*                                                                         *)
(* Decomposition (write_json / traverse_base / traverse_value /            *)
(* detach_helper) is a step machine over an explicit call stack: one       *)
(* action per step of the property loop, per element of a sequence or      *)
(* mapping, and per return of a finished object.  Recomposition            *)
(* (read_json / recompose_base / handle_value) is one action that applies  *)
(* the recursive functions and records every get_object call.              *)
(*                                                                         *)
(* Python values are tagged records:                                       *)
(*   [k |-> "int", i], [k |-> "str", s], [k |-> "null"],                   *)
(*   [k |-> "obj", props]   a Base object, props an ordered sequence of    *)
(*                          [n |-> name, v |-> value],                     *)
(*   [k |-> "list", items], [k |-> "dict", ents] (ordered [n, v] pairs),   *)
(*   [k |-> "text", doc]    a JSON text (json.dumps of doc).               *)
(* sha256 is taken to be collision free: a hash is the JSON text that was  *)
(* hashed, in brackets.                                                    *)
(***************************************************************************)
EXTENDS Integers, Sequences, FiniteSets, TLC

\* Largest number of Base objects in a generated input tree.
MaxNodes == 3
\* Largest number of configured write transports.
NumSinks == 2
\* Largest number of top-level decomposition calls made on one serializer.
MaxCalls == 2

VARIABLES
  pc,              \* "idle" | "writing" | "done" | "read"
  input0,          \* the object tree handed to write_json, as it was at the call
  tree,            \* the same tree as it is now (mappings are rewritten in place)
  stack,           \* the call stack of traverse_base / traverse_value frames
  detach_lineage,  \* self.detach_lineage
  lineage,         \* self.lineage
  family_tree,     \* self.family_tree
  closure_table,   \* self.closure_table
  uuids,           \* number of uuid4() tokens drawn so far
  sinks,           \* per write transport, the save_object calls it received
  produced,        \* every (hash, record) traverse_base has returned, in order
  ret,             \* what write_json returned
  rd,              \* the last read_json call: transport, argument, outcome
  entry,           \* how the running call was entered: write_json | traverse_base
  history,         \* the top-level calls that have ended on this serializer
  probes,          \* the two stacks' lengths at each save_object / detach_helper call
  drew,            \* drew[u]: the serializer instance that drew uuid4() token u
  who,             \* the serializer instance that is running (the variables above
                   \* are its attributes and its call)
  own,             \* own[i]: the attributes bound on instance i itself; the others
                   \* resolve to the class attributes
  cls,             \* the class attributes, as the running instance last left them
  other            \* the attributes and the call of the instance that is not running

vars == <<pc, input0, tree, stack, detach_lineage, lineage, family_tree,
          closure_table, uuids, sinks, produced, ret, rd, entry, history, probes,
          drew, who, own, cls, other>>

\* the variables of the second instance and of the class
pairVars == <<who, own, cls, other>>

----------------------------------------------------------------------------
\* Values

IntV(i) == [k |-> "int", i |-> i]
StrV(s) == [k |-> "str", s |-> s]
Null == [k |-> "null"]
Obj(props) == [k |-> "obj", props |-> props]
Lst(items) == [k |-> "list", items |-> items]
Dct(ents) == [k |-> "dict", ents |-> ents]
Prop(n, v) == [n |-> n, v |-> v]

\* PRIMITIVES = (int, float, str, bool)
IsPrimitive(v) == v.k \in {"int", "str", "text"}

\* Python truthiness (`not value`)
Falsy(v) ==
  CASE v.k = "null" -> TRUE
    [] v.k = "int" -> v.i = 0
    [] v.k = "str" -> v.s = ""
    [] v.k = "list" -> v.items = <<>>
    [] v.k = "dict" -> v.ents = <<>>
    [] OTHER -> FALSE

\* The property names of the model and their prefixes (str.startswith).
DetachNames == {"@d", "@e", "@l", "@m", "@child"}
IgnoredNames == {"__h", "__closure"}
StartsWithAt(n) == n \in DetachNames
StartsWithDunder(n) == n \in IgnoredNames

\* dict operations on an ordered sequence of [n, v] entries
HasKey(ents, n) == \E i \in DOMAIN ents : ents[i].n = n
KeyIndex(ents, n) == CHOOSE i \in DOMAIN ents : ents[i].n = n
GetKey(ents, n) == ents[KeyIndex(ents, n)].v
PutKey(ents, n, v) ==
  IF HasKey(ents, n) THEN [ents EXCEPT ![KeyIndex(ents, n)].v = v]
  ELSE Append(ents, Prop(n, v))
DelKey(ents, n) == SelectSeq(ents, LAMBDA e : e.n # n)

\* json.dumps / json.loads: a JSON text is kept as the document it encodes
json_dumps(v) == [k |-> "text", doc |-> v]
json_loads(t) == t.doc

\* The characters json.dumps writes for a serializable value, keys in
\* insertion order.
RECURSIVE JsonText(_)
RECURSIVE JsonItems(_, _)
RECURSIVE JsonEnts(_, _)
JsonText(v) ==
  CASE v.k = "int" -> ToString(v.i)
    [] v.k = "str" -> "\"" \o v.s \o "\""
    [] v.k = "null" -> "null"
    [] v.k = "list" -> "[" \o JsonItems(v.items, 1) \o "]"
    [] v.k = "dict" -> "{" \o JsonEnts(v.ents, 1) \o "}"
JsonItems(items, i) ==
  IF i > Len(items) THEN ""
  ELSE JsonText(items[i]) \o (IF i < Len(items) THEN ", " ELSE "")
       \o JsonItems(items, i + 1)
JsonEnts(ents, i) ==
  IF i > Len(ents) THEN ""
  ELSE "\"" \o ents[i].n \o "\": " \o JsonText(ents[i].v)
       \o (IF i < Len(ents) THEN ", " ELSE "") \o JsonEnts(ents, i + 1)

\* sha256(json.dumps(obj)).hexdigest()[:32], one digest per text
hash_obj(obj) == "#(" \o JsonText(obj) \o ")"

\* The i-th child of a container, and reading / writing at a path of indices.
ChildOf(v, i) ==
  CASE v.k = "obj" -> v.props[i].v
    [] v.k = "list" -> v.items[i]
    [] v.k = "dict" -> v.ents[i].v

RECURSIVE GetAt(_, _)
GetAt(v, path) ==
  IF path = <<>> THEN v ELSE GetAt(ChildOf(v, Head(path)), Tail(path))

RECURSIVE SetAt(_, _, _)
SetAt(v, path, new) ==
  IF path = <<>> THEN new
  ELSE LET i == Head(path) IN
    CASE v.k = "obj" -> [v EXCEPT !.props[i].v = SetAt(@, Tail(path), new)]
      [] v.k = "list" -> [v EXCEPT !.items[i] = SetAt(@, Tail(path), new)]
      [] v.k = "dict" -> [v EXCEPT !.ents[i].v = SetAt(@, Tail(path), new)]

----------------------------------------------------------------------------
\* Input object trees

Leaf5 == Obj(<<Prop("x", IntV(5))>>)
Leaf7 == Obj(<<Prop("x", IntV(7))>>)

\* The ways a generated object holds a child: inlined, detached (twice),
\* inside a sequence, inside a mapping.
SlotNames == <<"c", "@d", "@e", "l", "m">>
Slot(s, t) ==
  CASE s \in {1, 2, 3} -> Prop(SlotNames[s], t)
    [] s = 4 -> Prop(SlotNames[s], Lst(<<t>>))
    [] s = 5 -> Prop(SlotNames[s], Dct(<<Prop("k", t)>>))

\* Objects with exactly n Base nodes, one or two children per inner node.
RECURSIVE Gen(_)
Gen(n) ==
  IF n <= 1 THEN {Leaf5, Leaf7}
  ELSE {Obj(<<Slot(s, t)>>) : s \in DOMAIN SlotNames, t \in Gen(n - 1)}
       \cup UNION { UNION { {Obj(<<Slot(s[1], t1), Slot(s[2], t2)>>) :
                              t1 \in Gen(a), t2 \in Gen(n - 1 - a)} :
                            a \in 1..(n - 2) } :
                    s \in {p \in (DOMAIN SlotNames) \X (DOMAIN SlotNames) : p[1] < p[2]} }

\* spec.md section 8: {a: 1, b: 0, c: "", d: null}
FalsyScenario ==
  Obj(<<Prop("a", IntV(1)), Prop("b", IntV(0)), Prop("c", StrV("")),
        Prop("d", Null)>>)
\* spec.md section 8: {"@child": {x: 5}}
ChildScenario == Obj(<<Prop("@child", Leaf5)>>)
\* the same detached content reached at two depths
MinPathScenario ==
  Obj(<<Prop("c", Obj(<<Prop("c", Obj(<<Prop("@d", Leaf5)>>))>>)), Prop("@d", Leaf5)>>)
\* the same content with a detached child, detached at two depths
Holder == Obj(<<Prop("@d", Leaf5)>>)
TwiceScenario ==
  Obj(<<Prop("@d", Holder), Prop("c", Obj(<<Prop("@e", Holder)>>))>>)
\* objects that carry a speckleType property of their own
Typed(props) == Obj(<<Prop("speckleType", StrV("Base"))>> \o props)
TypedScenario ==
  Typed(<<Prop("c", Typed(<<Prop("@d", Typed(<<Prop("x", IntV(5))>>))>>)),
          Prop("l", Lst(<<Typed(<<Prop("x", IntV(7))>>)>>))>>)
\* sequences and mappings of primitives, nulls and nested collections,
\* an ignored property, and objects below a detach-named sequence
MixedScenario ==
  Obj(<<Prop("__h", IntV(1)),
        Prop("l", Lst(<<IntV(0), Null, Lst(<<Leaf5>>), Dct(<<Prop("k", Leaf7)>>)>>)),
        Prop("m", Dct(<<Prop("p", IntV(0)), Prop("n", Null),
                        Prop("q", Lst(<<Leaf5>>)), Prop("r", Dct(<<Prop("k", IntV(1))>>))>>)),
        Prop("@l", Lst(<<Obj(<<Prop("@d", Leaf5)>>)>>))>>)

\* objects inside a detach-named sequence and a detach-named mapping, next to
\* a detached object
CollectionsScenario ==
  Obj(<<Prop("@l", Lst(<<Leaf5, Lst(<<Obj(<<Prop("c", Leaf7)>>)>>)>>)),
        Prop("@m", Dct(<<Prop("k", Obj(<<Prop("y", IntV(1))>>))>>)),
        Prop("@d", Leaf7)>>)

\* a skipped property, an object in a sequence, and an object with a detached
\* child in a mapping
HeldScenario ==
  Obj(<<Prop("b", IntV(0)), Prop("l", Lst(<<Leaf7>>)),
        Prop("m", Dct(<<Prop("k", Obj(<<Prop("@d", Leaf5)>>))>>))>>)

Scenarios ==
  {FalsyScenario, ChildScenario, MinPathScenario, TwiceScenario, TypedScenario,
   MixedScenario, CollectionsScenario, HeldScenario}

Inputs == UNION {Gen(n) : n \in 1..MaxNodes} \cup Scenarios

----------------------------------------------------------------------------
\* Decomposition: the serializer's state and its steps

BaseFrame(path) == [f |-> "base", path |-> path, i |-> 1, acc |-> <<Prop("id", StrV(""))>>]
ListFrame(path) == [f |-> "list", path |-> path, i |-> 1, acc |-> <<>>]
DictFrame(path) == [f |-> "dict", path |-> path, i |-> 1, acc |-> <<>>]

Top == stack[Len(stack)]
Front(s) == SubSeq(s, 1, Len(s) - 1)
Last(s) == s[Len(s)]
Range(s) == {s[i] : i \in DOMAIN s}
TopValue == GetAt(tree, Top.path)

\* (variant: the skip tests `value is None` instead of `not value`)
SkipNoneOnly(prop, value) == value.k = "null" \/ StartsWithDunder(prop)
\* `if not value or prop.startswith("__"): continue`
Skip(prop, value) == Falsy(value) \/ StartsWithDunder(prop)

\* `detach = True if prop.startswith("@") else False`
WantsDetach(prop) == StartsWithAt(prop)

\* traverse_value on a value that is neither a collection nor a Base: a
\* primitive is returned as it is; None (the only other such value here) has
\* no dict(), so the except branch returns str(obj).
IsImmediate(v) == v.k \notin {"obj", "list", "dict"}
Flatten(v) == IF IsPrimitive(v) THEN v ELSE StrV("None")

\* The class attributes of lines 20-23, and a serializer instance on which no
\* call was made yet: it has no attribute of its own among them.
Attrs == {"detach_lineage", "lineage", "family_tree", "closure_table"}
ClassAttributes ==
  [detach_lineage |-> <<>>, lineage |-> <<>>, family_tree |-> <<>>,
   closure_table |-> <<>>]
Instance(input, n) ==
  [pc |-> "idle", input0 |-> input, tree |-> input, stack |-> <<>>,
   detach_lineage |-> <<>>, lineage |-> <<>>, family_tree |-> <<>>,
   closure_table |-> <<>>, sinks |-> [t \in 1..n |-> <<>>], produced |-> <<>>,
   ret |-> [hash |-> "", json |-> Null], entry |-> "none", history |-> <<>>,
   probes |-> <<>>]

\* One serializer instance, its input and its write transports; the second
\* instance is never run.
InitWith(inputs, transports, others) ==
  /\ pc = "idle"
  /\ input0 \in inputs
  /\ tree = input0
  /\ stack = <<>>
  /\ detach_lineage = <<>>
  /\ lineage = <<>>
  /\ family_tree = <<>>
  /\ closure_table = <<>>
  /\ uuids = 0
  /\ \E n \in transports : sinks = [t \in 1..n |-> <<>>]
  /\ produced = <<>>
  /\ ret = [hash |-> "", json |-> Null]
  /\ rd = [phase |-> "none"]
  /\ entry = "none"
  /\ history = <<>>
  /\ probes = <<>>
  /\ drew = <<>>
  /\ who = 1
  /\ own = [i \in {1, 2} |-> {}]
  /\ cls = ClassAttributes
  /\ other \in others

Init == InitWith(Inputs, 0..NumSinks, {Instance(Leaf5, 0)})

\* (variant: the root is not flagged for writing)
RootLineageOff == <<FALSE>>
\* `self.detach_lineage = [True]`
RootLineage == <<TRUE>>

\* write_json up to the first step of traverse_base's property loop:
\* __reset_writer, detach_lineage = [True], lineage.append(uuid4().hex),
\* object_builder = {"id": ""}.
EnterWriteJson ==
  /\ pc' = "writing"
  /\ input0' = tree
  /\ detach_lineage' = RootLineage
  /\ lineage' = <<uuids + 1>>
  /\ uuids' = uuids + 1
  /\ drew' = Append(drew, who)
  /\ family_tree' = <<>>
  /\ closure_table' = <<>>
  /\ own' = [own EXCEPT ![who] = Attrs]
  /\ stack' = <<BaseFrame(<<>>)>>
  /\ entry' = "write_json"
  /\ probes' = <<>>
  /\ produced' = <<>>
  /\ UNCHANGED <<tree, sinks, ret, rd, history, who, cls, other>>

\* the first call on the serializer is write_json
WriteJson ==
  /\ pc = "idle"
  /\ EnterWriteJson

\* A top-level call has ended: write_json or traverse_base returned, or an
\* exception of save_object left through it.
CallEnded == pc \in {"done", "aborted"}

\* write_json is called on a serializer that was used before
WriteJsonAgain ==
  /\ CallEnded /\ Len(history) < MaxCalls
  /\ EnterWriteJson

\* traverse_base called by the user, up to the first step of the property
\* loop: `if not self.detach_lineage: self.detach_lineage = [True]`,
\* lineage.append(uuid4().hex), object_builder = {"id": ""}.  Nothing is reset.
EnterTraverseBase ==
  /\ pc' = "writing"
  /\ input0' = tree
  /\ detach_lineage' = IF detach_lineage = <<>> THEN <<TRUE>> ELSE detach_lineage
  /\ own' = [own EXCEPT ![who] =
               IF detach_lineage = <<>> THEN @ \cup {"detach_lineage"} ELSE @]
  /\ lineage' = Append(lineage, uuids + 1)
  /\ uuids' = uuids + 1
  /\ drew' = Append(drew, who)
  /\ stack' = <<BaseFrame(<<>>)>>
  /\ entry' = "traverse_base"
  /\ probes' = <<>>
  /\ produced' = <<>>
  /\ UNCHANGED <<tree, family_tree, closure_table, sinks, ret, rd, history, who, cls,
                 other>>

\* the first call on the serializer is traverse_base
TraverseBase ==
  /\ pc = "idle"
  /\ EnterTraverseBase

\* traverse_base is called on a serializer that was used before
TraverseBaseAgain ==
  /\ CallEnded /\ Len(history) < MaxCalls
  /\ EnterTraverseBase

\* The new stack and lineages when traverse_value is entered for the value at
\* childPath: a Base pushes its detach flag and a fresh transient id.
Advance(s) == [s EXCEPT ![Len(s)].i = @ + 1]

Descend(childPath, value, detach) ==
  /\ stack' = Append(stack,
        CASE value.k = "obj" -> BaseFrame(childPath)
          [] value.k = "list" -> ListFrame(childPath)
          [] value.k = "dict" -> DictFrame(childPath))
  /\ IF value.k = "obj"
     THEN /\ detach_lineage' = Append(detach_lineage, detach)
          /\ lineage' = Append(lineage, uuids + 1)
          /\ uuids' = uuids + 1
          /\ drew' = Append(drew, who)
     ELSE UNCHANGED <<detach_lineage, lineage, uuids, drew>>

\* traverse_base, one turn of `while props`: a skipped property
SkipProp ==
  /\ pc = "writing" /\ Top.f = "base" /\ Top.i <= Len(TopValue.props)
  /\ LET p == TopValue.props[Top.i] IN Skip(p.n, p.v)
  /\ stack' = Advance(stack)
  /\ UNCHANGED <<pc, input0, tree, detach_lineage, lineage, family_tree,
                 closure_table, uuids, sinks, produced, ret, rd, entry, history,
                 probes, drew, pairVars>>

\* traverse_base, case 1: a primitive is copied into object_builder
CopyPrimitive ==
  /\ pc = "writing" /\ Top.f = "base" /\ Top.i <= Len(TopValue.props)
  /\ LET p == TopValue.props[Top.i] IN
       /\ ~Skip(p.n, p.v) /\ IsPrimitive(p.v)
       /\ stack' = [stack EXCEPT ![Len(stack)].acc = PutKey(@, p.n, p.v),
                                 ![Len(stack)].i = @ + 1]
  /\ UNCHANGED <<pc, input0, tree, detach_lineage, lineage, family_tree,
                 closure_table, uuids, sinks, produced, ret, rd, entry, history,
                 probes, drew, pairVars>>

\* traverse_base, cases 2 and 3: traverse_value is entered for the value; only
\* a Base value is entered with the property's detach flag.
DescendProp ==
  /\ pc = "writing" /\ Top.f = "base" /\ Top.i <= Len(TopValue.props)
  /\ LET p == TopValue.props[Top.i] IN
       /\ ~Skip(p.n, p.v) /\ ~IsPrimitive(p.v)
       /\ Descend(Top.path \o <<Top.i>>, p.v,
                  IF p.v.k = "obj" THEN WantsDetach(p.n) ELSE FALSE)
  /\ UNCHANGED <<pc, input0, tree, family_tree, closure_table, sinks, produced,
                 ret, rd, entry, history, probes, pairVars>>

\* The property traverse_base is working on: that of the innermost object on
\* the call stack.
EnclosingProp ==
  LET b == CHOOSE j \in DOMAIN stack :
             stack[j].f = "base" /\ \A l \in DOMAIN stack : stack[l].f = "base" => l <= j
  IN GetAt(tree, stack[b].path).props[stack[b].i].n

\* (variant: the elements are entered with the flag of the property)
ContainedFlagOfProp(prop) == WantsDetach(prop)
\* `self.traverse_value(o)`, `self.traverse_value(v)`: an element of a
\* sequence or mapping is entered with the default `detach=False`
ContainedFlag(prop) == FALSE

\* traverse_value on a list: `[self.traverse_value(o) for o in obj]`, one element
StepItem ==
  /\ pc = "writing" /\ Top.f = "list" /\ Top.i <= Len(TopValue.items)
  /\ LET o == TopValue.items[Top.i] IN
       IF IsImmediate(o)
       THEN /\ stack' = [stack EXCEPT ![Len(stack)].acc = Append(@, Flatten(o)),
                                      ![Len(stack)].i = @ + 1]
            /\ UNCHANGED <<detach_lineage, lineage, uuids, drew>>
       ELSE Descend(Top.path \o <<Top.i>>, o, ContainedFlag(EnclosingProp))
  /\ UNCHANGED <<pc, input0, tree, family_tree, closure_table, sinks, produced,
                 ret, rd, entry, history, probes, pairVars>>

\* traverse_value on a dict, one item: a primitive is left alone, anything else
\* is replaced in the dict itself by its traversed value.
StepEntry ==
  /\ pc = "writing" /\ Top.f = "dict" /\ Top.i <= Len(TopValue.ents)
  /\ LET e == TopValue.ents[Top.i] IN
       IF IsPrimitive(e.v)
       THEN /\ stack' = Advance(stack)
            /\ UNCHANGED <<tree, detach_lineage, lineage, uuids, drew>>
       ELSE IF IsImmediate(e.v)
       THEN /\ stack' = Advance(stack)
            /\ tree' = SetAt(tree, Top.path \o <<Top.i>>, Flatten(e.v))
            /\ UNCHANGED <<detach_lineage, lineage, uuids, drew>>
       ELSE /\ Descend(Top.path \o <<Top.i>>, e.v, ContainedFlag(EnclosingProp))
            /\ UNCHANGED tree
  /\ UNCHANGED <<pc, input0, family_tree, closure_table, sinks, produced, ret, rd,
                 entry, history, probes, pairVars>>

\* (variant: the depth first recorded for ref_hash is kept)
TrackDepthFirst(entries, ref_hash, n) ==
  IF \A j \in DOMAIN entries : entries[j].ref # ref_hash
  THEN Append(entries, [ref |-> ref_hash, depth |-> n])
  ELSE entries
\* detach_helper's update of one ancestor's entry: the depth of ref_hash is set
\* when it is new or when the recorded depth is larger.
TrackDepth(entries, ref_hash, n) ==
  IF \A j \in DOMAIN entries : entries[j].ref # ref_hash
  THEN Append(entries, [ref |-> ref_hash, depth |-> n])
  ELSE [j \in DOMAIN entries |->
          IF entries[j].ref = ref_hash /\ entries[j].depth > n
          THEN [ref |-> ref_hash, depth |-> n] ELSE entries[j]]

\* (variant: only the detaching object's own entry is updated)
TrackedParentOnly(lin) == {Last(lin)}
\* `for parent in self.lineage`: the ancestors whose entry detach_helper updates
TrackedParents(lin) == Range(lin)

\* detach_helper: family_tree after the loop over self.lineage
detach_helper(ft, lin, ref_hash, n) ==
  [u \in DOMAIN ft \cup TrackedParents(lin) |->
     IF u \in TrackedParents(lin)
     THEN TrackDepth(IF u \in DOMAIN ft THEN ft[u] ELSE <<>>, ref_hash, n)
     ELSE ft[u]]

\* detach_helper's return value
ReferenceMarker(ref_hash) ==
  Dct(<<Prop("referencedId", StrV(ref_hash)), Prop("speckleType", StrV("reference"))>>)

\* (variant: the stack's length before the pop is subtracted)
RelativeToOpenLevel(depth, n) == depth - (n + 1)
\* (variant: the recorded depth is not made relative)
AbsoluteDepth(depth, n) == depth
\* `depth - len(self.detach_lineage)`
RelativeDepth(depth, n) == depth - n

\* the dict comprehension of traverse_base's closure
Closure(entries, n) ==
  Dct([j \in DOMAIN entries |->
         Prop(entries[j].ref, IntV(RelativeDepth(entries[j].depth, n)))])

\* (variant: every record is written)
WriteAlways(detached) == TRUE
\* `if detached:` write detached or root objects to transports
ShouldWrite(detached) == detached

\* AbstractTransport.save_object, as the log of the calls received
save_object(log, id, serialized_object) ==
  Append(log, [id |-> id, serialized_object |-> serialized_object])

\* (variant: the finished record is hashed again)
RefHashRehashed(child_obj) == hash_obj(child_obj)
\* `ref_hash = child_obj["id"]`
RefHashOf(child_obj) == GetKey(child_obj.ents, "id").s

\* The lengths of self.detach_lineage and self.lineage at a call made by the
\* serializer.
Probe(at, dl, lin) == [at |-> at, detach_lineage |-> Len(dl), lineage |-> Len(lin)]

\* What the caller of a finished traverse_value does with the returned value:
\* traverse_base stores it (or, for a detached Base, a reference marker) under
\* the property, a list comprehension collects it, a dict stores it in itself.
Deliver(result, isBase, ft, dl, lin, pb) ==
  LET rest == Front(stack)
      parent == Last(rest)
      holder == GetAt(tree, parent.path)
  IN
  /\ pc' = pc /\ ret' = ret /\ history' = history
  /\ CASE parent.f = "base" ->
            LET prop == holder.props[parent.i].n
                detach == isBase /\ WantsDetach(prop)
                ref_hash == RefHashOf(result)
            IN /\ stack' = [rest EXCEPT
                    ![Len(rest)].acc = PutKey(@, prop,
                        IF detach THEN ReferenceMarker(ref_hash) ELSE result),
                    ![Len(rest)].i = @ + 1]
               /\ family_tree' =
                    IF detach THEN detach_helper(ft, lin, ref_hash, Len(dl)) ELSE ft
               /\ probes' =
                    IF detach THEN Append(pb, Probe("detach_helper", dl, lin)) ELSE pb
               /\ tree' = tree
       [] parent.f = "list" ->
            /\ stack' = [rest EXCEPT ![Len(rest)].acc = Append(@, result),
                                     ![Len(rest)].i = @ + 1]
            /\ family_tree' = ft
            /\ probes' = pb
            /\ tree' = tree
       [] parent.f = "dict" ->
            /\ stack' = Advance(rest)
            /\ family_tree' = ft
            /\ probes' = pb
            /\ tree' = SetAt(tree, parent.path \o <<parent.i>>, result)

\* (variant: the hash is taken when the closure has been added)
HashInputClosed(object_builder, closed) == closed
\* `hash = hash_obj(object_builder)` comes before the closure is added: what is
\* hashed is the record with "id": "" and without its closure
HashInput(object_builder, closed) == object_builder

\* (variant: the transient id is left on the stack)
KeepTransientId(lin) == lin
\* `del self.lineage[-1]`
DropTransientId(lin) == Front(lin)

\* traverse_base after the property loop, lines 82-92: hash, id, the detach
\* flag popped, the closure built and indexed.
Finished ==
  LET dl == Front(detach_lineage)
      me == Last(lineage)
      hasClosure == me \in DOMAIN family_tree
      closure == Closure(family_tree[me], Len(dl))
      hash == hash_obj(Dct(HashInput(Top.acc,
                IF hasClosure THEN PutKey(Top.acc, "__closure", closure)
                ELSE Top.acc)))
      ob1 == PutKey(Top.acc, "id", StrV(hash))
  IN [hash |-> hash,
      detached |-> Last(detach_lineage),
      dl |-> dl,
      object_builder |->
        Dct(IF hasClosure THEN PutKey(ob1, "__closure", closure) ELSE ob1),
      closure_table |->
        IF hasClosure
        THEN [h \in DOMAIN closure_table \cup {hash} |->
                IF h = hash THEN closure ELSE closure_table[h]]
        ELSE closure_table]

\* what the top-level call returns: write_json the hash and the JSON text of
\* the record, traverse_base the hash and the record
Returned(hash, object_builder) ==
  [hash |-> hash,
   json |-> IF entry = "write_json" THEN json_dumps(object_builder)
            ELSE object_builder]

\* a top-level call that has ended, with what the write transports hold then
Call(outcome, hash, object_builder, held) ==
  [entry |-> entry, input |-> input0, outcome |-> outcome, hash |-> hash,
   rec |-> object_builder, sinks |-> held]

\* traverse_base from the hash on: lines 82-92, the writes, the transient id
\* dropped; then the return to the caller (the user for the root).
ReturnBase ==
  /\ pc = "writing" /\ Top.f = "base" /\ Top.i > Len(TopValue.props)
  /\ LET hash == Finished.hash
         detached == Finished.detached
         dl == Finished.dl
         object_builder == Finished.object_builder
         lin == DropTransientId(lineage)
         pb == IF ShouldWrite(detached) /\ Len(sinks) > 0
               THEN Append(probes, Probe("save_object", dl, lineage))
               ELSE probes
     IN
     /\ detach_lineage' = dl
     /\ lineage' = lin
     /\ closure_table' = Finished.closure_table
     /\ sinks' =
          IF ShouldWrite(detached)
          THEN [t \in DOMAIN sinks |->
                  save_object(sinks[t], hash, json_dumps(object_builder))]
          ELSE sinks
     /\ produced' = Append(produced,
          [path |-> Top.path, id |-> hash, rec |-> object_builder,
           detached |-> detached])
     /\ IF Len(stack) = 1
        THEN /\ pc' = "done"
             /\ ret' = Returned(hash, object_builder)
             /\ history' =
                  Append(history, Call("returned", hash, object_builder, sinks'))
             /\ stack' = <<>>
             /\ probes' = pb
             /\ UNCHANGED <<tree, family_tree>>
        ELSE Deliver(object_builder, TRUE, family_tree, dl, lin, pb)
  /\ UNCHANGED <<input0, uuids, rd, entry, drew, pairVars>>

\* traverse_base from the hash on, when the save_object of write transport t
\* raises: the transports before t have received the record, the exception
\* leaves through every open call, and line 99 is not reached.
SaveObjectRaises ==
  /\ pc = "writing" /\ Top.f = "base" /\ Top.i > Len(TopValue.props)
  /\ ShouldWrite(Finished.detached)
  /\ \E t \in DOMAIN sinks :
       sinks' = [u \in DOMAIN sinks |->
                  IF u < t
                  THEN save_object(sinks[u], Finished.hash,
                                   json_dumps(Finished.object_builder))
                  ELSE sinks[u]]
  /\ detach_lineage' = Finished.dl
  /\ closure_table' = Finished.closure_table
  /\ probes' = Append(probes, Probe("save_object", Finished.dl, lineage))
  /\ pc' = "aborted"
  /\ stack' = <<>>
  /\ history' = Append(history, Call("aborted", "", Null, sinks'))
  /\ UNCHANGED <<input0, tree, lineage, family_tree, uuids, produced, ret, rd,
                 entry, drew, pairVars>>

\* traverse_value returns the new list of a list comprehension
ReturnList ==
  /\ pc = "writing" /\ Top.f = "list" /\ Top.i > Len(TopValue.items)
  /\ Deliver(Lst(Top.acc), FALSE, family_tree, detach_lineage, lineage, probes)
  /\ UNCHANGED <<input0, detach_lineage, lineage, closure_table, uuids, sinks,
                 produced, rd, entry, drew, pairVars>>

\* traverse_value returns the dict it was given, rewritten
ReturnDict ==
  /\ pc = "writing" /\ Top.f = "dict" /\ Top.i > Len(TopValue.ents)
  /\ Deliver(TopValue, FALSE, family_tree, detach_lineage, lineage, probes)
  /\ UNCHANGED <<input0, detach_lineage, lineage, closure_table, uuids, sinks,
                 produced, rd, entry, drew, pairVars>>

----------------------------------------------------------------------------
\* Recomposition

\* A read transport: `on` is FALSE when read_transport is None; get_object
\* answers from `store`, the save_object calls a transport received, with the
\* last record saved under the id, or with nothing.
NoTransport == [on |-> FALSE, name |-> "", store |-> <<>>]
MemoryTransport(log) == [on |-> TRUE, name |-> "memory", store |-> log]

get_object(rt, id) ==
  IF \E j \in DOMAIN rt.store : rt.store[j].id = id
  THEN LET j == CHOOSE j \in DOMAIN rt.store :
                  /\ rt.store[j].id = id
                  /\ \A l \in DOMAIN rt.store : rt.store[l].id = id => l <= j
       IN rt.store[j].serialized_object
  ELSE Null

\* The outcome of a call: the value returned, the get_object calls made so far,
\* the exception raised (if any), and the argument as the call left it.
\* An exception also records the Base that was being rebuilt where it was raised.
NoErr == [kind |-> "none", ref |-> "", name |-> "", partial |-> Null]
Raise(kind, ref, name, base) == [kind |-> kind, ref |-> ref, name |-> name, partial |-> base]
Outcome(val, calls, err, arg) == [val |-> val, calls |-> calls, err |-> err, arg |-> arg]

\* `base[prop] = value` on the Base being rebuilt
SetMember(base, prop, value) == Obj(PutKey(base.props, prop, value))

\* (variant: the read transport is not checked)
NeverNeedsTransport(obj, rt) == FALSE
\* `"__closure" in obj` and `not self.read_transport`
NeedsTransport(obj, rt) == HasKey(obj.ents, "__closure") /\ ~rt.on

\* `"referencedId" in value` for a dict (a key) or a list (an element)
ContainsRef(value) ==
  CASE value.k = "dict" -> HasKey(value.ents, "referencedId")
    [] value.k = "list" -> \E j \in DOMAIN value.items : value.items[j] = StrV("referencedId")
    [] OTHER -> FALSE

\* (variant: get_object is called a second time)
FetchRetried(calls, ref_hash) == calls \o <<ref_hash, ref_hash>>
\* the get_object calls after `self.read_transport.get_object(id=ref_hash)`
Fetch(calls, ref_hash) == Append(calls, ref_hash)

\* `isinstance(obj, dict) and "speckleType" in obj`
IsRecordShaped(obj) == obj.k = "dict" /\ HasKey(obj.ents, "speckleType")

RECURSIVE recompose_base(_, _, _)
RECURSIVE RecomposeProps(_, _, _, _, _)
RECURSIVE handle_value(_, _, _)
RECURSIVE HandleItems(_, _, _, _, _)
RECURSIVE HandleEnts(_, _, _, _)

recompose_base(rt, obj0, calls) ==
  IF Falsy(obj0) THEN Outcome(Null, calls, NoErr, obj0)
  ELSE
    LET obj == IF obj0.k = "text" THEN json_loads(obj0) ELSE obj0
        fresh == Obj(<<>>)
    IN
    IF NeedsTransport(obj, rt)
    THEN Outcome(Null, calls, Raise("configuration", "", "", fresh), obj0)
    ELSE
      LET hasClosure == HasKey(obj.ents, "__closure")
          popped == IF hasClosure THEN Dct(DelKey(obj.ents, "__closure")) ELSE obj
          base == IF hasClosure
                  THEN Obj(<<Prop("totalChildrenCount",
                                  IntV(Len(GetKey(obj.ents, "__closure").ents)))>>)
                  ELSE fresh
          out == RecomposeProps(rt, popped, 1, base, calls)
      IN IF obj0.k = "text" THEN [out EXCEPT !.arg = obj0] ELSE out

\* `for prop, value in obj.items()` from the i-th item on
RecomposeProps(rt, obj, i, base, calls) ==
  IF i > Len(obj.ents) THEN Outcome(base, calls, NoErr, obj)
  ELSE
    LET prop == obj.ents[i].n
        value == obj.ents[i].v
    IN
    IF IsPrimitive(value)
    THEN RecomposeProps(rt, obj, i + 1, SetMember(base, prop, value), calls)
    ELSE IF value.k \notin {"dict", "list"}
    THEN Outcome(Null, calls, Raise("TypeError", "", "", base), obj)
    ELSE IF ContainsRef(value)
    THEN
      IF value.k = "list"
      THEN Outcome(Null, calls, Raise("TypeError", "", "", base), obj)
      ELSE IF ~rt.on
      THEN Outcome(Null, calls, Raise("AttributeError", "", "", base), obj)
      ELSE
        LET ref_hash == GetKey(value.ents, "referencedId").s
            ref_obj_str == get_object(rt, ref_hash)
            calls1 == Fetch(calls, ref_hash)
        IN
        IF Falsy(ref_obj_str)
        THEN Outcome(Null, calls1, Raise("resolution", ref_hash, rt.name, base), obj)
        ELSE
          LET r == recompose_base(rt, json_loads(ref_obj_str), calls1) IN
          IF r.err.kind # "none" THEN Outcome(Null, r.calls, r.err, obj)
          ELSE RecomposeProps(rt, obj, i + 1, SetMember(base, prop, r.val), r.calls)
    ELSE
      LET r == handle_value(rt, value, calls)
          obj1 == [obj EXCEPT !.ents[i].v = r.arg]
      IN
      IF r.err.kind # "none" THEN Outcome(Null, r.calls, r.err, obj1)
      ELSE RecomposeProps(rt, obj1, i + 1, SetMember(base, prop, r.val), r.calls)

handle_value(rt, obj, calls) ==
  IF IsPrimitive(obj) THEN Outcome(obj, calls, NoErr, obj)
  ELSE IF obj.k = "list" THEN HandleItems(rt, obj, 1, <<>>, calls)
  ELSE IF IsRecordShaped(obj) THEN recompose_base(rt, obj, calls)
  ELSE IF obj.k = "dict" THEN HandleEnts(rt, obj, 1, calls)
  ELSE Outcome(Null, calls, NoErr, obj)

\* `[self.handle_value(o) for o in obj]` from the i-th element on
HandleItems(rt, obj, i, acc, calls) ==
  IF i > Len(obj.items) THEN Outcome(Lst(acc), calls, NoErr, obj)
  ELSE
    LET r == handle_value(rt, obj.items[i], calls)
        obj1 == [obj EXCEPT !.items[i] = r.arg]
    IN
    IF r.err.kind # "none" THEN Outcome(Null, r.calls, r.err, obj1)
    ELSE HandleItems(rt, obj1, i + 1, Append(acc, r.val), r.calls)

\* `for k, v in obj.items(): obj[k] = self.handle_value(v)` from the i-th item on
HandleEnts(rt, obj, i, calls) ==
  IF i > Len(obj.ents) THEN Outcome(obj, calls, NoErr, obj)
  ELSE IF IsPrimitive(obj.ents[i].v) THEN HandleEnts(rt, obj, i + 1, calls)
  ELSE
    LET r == handle_value(rt, obj.ents[i].v, calls) IN
    IF r.err.kind # "none"
    THEN Outcome(Null, r.calls, r.err, [obj EXCEPT !.ents[i].v = r.arg])
    ELSE HandleEnts(rt, [obj EXCEPT !.ents[i].v = r.val], i + 1, r.calls)

\* read_json
read_json(rt, id, obj_string) ==
  IF Falsy(obj_string) THEN Outcome(Null, <<>>, NoErr, obj_string)
  ELSE [recompose_base(rt, json_loads(obj_string), <<>>) EXCEPT !.arg = obj_string]

\* The read transports a caller may configure after a write: none, one backed
\* by what the first write transport received, or that one with the records
\* of one hash lost.
Without(log, id) == SelectSeq(log, LAMBDA e : e.id # id)
Backing == IF Len(sinks) > 0 THEN sinks[1] ELSE <<>>
ReadTransports ==
  {NoTransport, MemoryTransport(Backing)}
  \cup {MemoryTransport(Without(Backing, Backing[j].id)) : j \in DOMAIN Backing}

\* A record whose nested, record-shaped value carries a closure while the
\* record itself carries none.
NestedClosureRecord ==
  Dct(<<Prop("id", StrV("r")), Prop("x", IntV(5)),
        Prop("c", Dct(<<Prop("id", StrV("n")),
                        Prop("speckleType", StrV("Base")),
                        Prop("@d", ReferenceMarker("H")),
                        Prop("__closure", Dct(<<Prop("H", IntV(1))>>))>>))>>)
\* a reference marker on its own
MarkerRecord == ReferenceMarker("H")
\* the record {referencedId: H}
BareMarkerRecord == Dct(<<Prop("referencedId", StrV("H"))>>)
\* a record of two detached children that carries its closure
ClosureRecord ==
  Dct(<<Prop("id", StrV("r")), Prop("@d", ReferenceMarker("H")),
        Prop("@e", ReferenceMarker("G")),
        Prop("__closure", Dct(<<Prop("H", IntV(1)), Prop("G", IntV(1))>>))>>)

\* a record whose mapping-valued property holds a record-shaped value
NestedMappingRecord ==
  Dct(<<Prop("id", StrV("r")),
        Prop("m", Dct(<<Prop("k", Dct(<<Prop("speckleType", StrV("Base")),
                                        Prop("x", IntV(5))>>))>>))>>)

ReadArguments ==
  {[id |-> ret.hash, obj_string |-> ret.json],
   [id |-> "r", obj_string |-> json_dumps(NestedClosureRecord)],
   [id |-> "H", obj_string |-> json_dumps(MarkerRecord)],
   [id |-> "H", obj_string |-> json_dumps(BareMarkerRecord)]}

ReadJson ==
  /\ pc = "done"
  /\ pc' = "read"
  /\ \E rt \in ReadTransports, a \in ReadArguments :
       rd' = [phase |-> "read", rt |-> rt, id |-> a.id, obj_string |-> a.obj_string,
              out |-> read_json(rt, a.id, a.obj_string)]
  /\ UNCHANGED <<input0, tree, stack, detach_lineage, lineage, family_tree,
                 closure_table, uuids, sinks, produced, ret, entry, history, probes,
                 drew, pairVars>>

\* The records a caller may hand to recompose_base itself: the one write_json
\* built, and hand-made ones.
RecomposeArguments ==
  {json_loads(ret.json), NestedClosureRecord, ClosureRecord, BareMarkerRecord,
   NestedMappingRecord}

\* recompose_base called directly with a decoded record
RecomposeBase ==
  /\ pc = "done"
  /\ pc' = "read"
  /\ \E rt \in ReadTransports, obj \in RecomposeArguments :
       rd' = [phase |-> "recompose", rt |-> rt, obj |-> obj,
              out |-> recompose_base(rt, obj, <<>>)]
  /\ UNCHANGED <<input0, tree, stack, detach_lineage, lineage, family_tree,
                 closure_table, uuids, sinks, produced, ret, entry, history, probes,
                 drew, pairVars>>

Next ==
  \/ WriteJson
  \/ SkipProp
  \/ CopyPrimitive
  \/ DescendProp
  \/ StepItem
  \/ StepEntry
  \/ ReturnBase
  \/ ReturnList
  \/ ReturnDict
  \/ ReadJson
  \/ RecomposeBase

Spec == Init /\ [][Next]_vars

----------------------------------------------------------------------------
\* One serializer used for several calls, with write transports that may fail

\* the scenarios and the smaller generated objects
SessionInputs == UNION {Gen(n) : n \in 1..(MaxNodes - 2)} \cup Scenarios

InitSession == InitWith(SessionInputs, 0..NumSinks, {Instance(Leaf5, 0)})

NextSession ==
  \/ WriteJson
  \/ TraverseBase
  \/ WriteJsonAgain
  \/ TraverseBaseAgain
  \/ SkipProp
  \/ CopyPrimitive
  \/ DescendProp
  \/ StepItem
  \/ StepEntry
  \/ ReturnBase
  \/ ReturnList
  \/ ReturnDict
  \/ SaveObjectRaises

SpecSession == InitSession /\ [][NextSession]_vars

----------------------------------------------------------------------------
\* Two serializer instances whose calls interleave

\* The running instance is suspended and the other one resumed, as when each
\* runs in a thread of its own.  An attribute an instance has not bound on
\* itself is the class attribute, one object for both instances.
Switch ==
  LET you == 3 - who
      class == [a \in Attrs |->
                 IF a \in own[who] THEN cls[a]
                 ELSE CASE a = "detach_lineage" -> detach_lineage
                        [] a = "lineage" -> lineage
                        [] a = "family_tree" -> family_tree
                        [] a = "closure_table" -> closure_table]
      Mine(a, v) == IF a \in own[who] THEN v ELSE <<>>
      Yours(a) == IF a \in own[you] THEN other[a] ELSE class[a]
  IN
  /\ other.pc \in {"idle", "writing"}
  /\ who' = you
  /\ cls' = class
  /\ other' =
       [pc |-> pc, input0 |-> input0, tree |-> tree, stack |-> stack,
        detach_lineage |-> Mine("detach_lineage", detach_lineage),
        lineage |-> Mine("lineage", lineage),
        family_tree |-> Mine("family_tree", family_tree),
        closure_table |-> Mine("closure_table", closure_table),
        sinks |-> sinks, produced |-> produced, ret |-> ret, entry |-> entry,
        history |-> history, probes |-> probes]
  /\ pc' = other.pc
  /\ input0' = other.input0
  /\ tree' = other.tree
  /\ stack' = other.stack
  /\ detach_lineage' = Yours("detach_lineage")
  /\ lineage' = Yours("lineage")
  /\ family_tree' = Yours("family_tree")
  /\ closure_table' = Yours("closure_table")
  /\ sinks' = other.sinks
  /\ produced' = other.produced
  /\ ret' = other.ret
  /\ entry' = other.entry
  /\ history' = other.history
  /\ probes' = other.probes
  /\ UNCHANGED <<uuids, drew, own, rd>>

PairInputs == {ChildScenario, HeldScenario}

\* each instance has one write transport of its own
InitPair == InitWith(PairInputs, {1}, {Instance(ChildScenario, 1)})

NextPair ==
  \/ WriteJson
  \/ TraverseBase
  \/ SkipProp
  \/ CopyPrimitive
  \/ DescendProp
  \/ StepItem
  \/ StepEntry
  \/ ReturnBase
  \/ ReturnList
  \/ ReturnDict
  \/ Switch

SpecPair == InitPair /\ [][NextPair]_vars

----------------------------------------------------------------------------
\* The input tree read on its own terms, for stating the properties

\* Paths of the Base objects traverse_base visits below (and including) v:
\* everything except what hangs below a skipped property.
RECURSIVE ObjPathsFrom(_, _)
ObjPathsFrom(v, prefix) ==
  CASE v.k = "obj" ->
         {prefix} \cup UNION {IF Falsy(v.props[i].v) \/ StartsWithDunder(v.props[i].n)
                              THEN {}
                              ELSE ObjPathsFrom(v.props[i].v, prefix \o <<i>>) :
                              i \in DOMAIN v.props}
    [] v.k = "list" ->
         UNION {ObjPathsFrom(v.items[i], prefix \o <<i>>) : i \in DOMAIN v.items}
    [] v.k = "dict" ->
         UNION {ObjPathsFrom(v.ents[i].v, prefix \o <<i>>) : i \in DOMAIN v.ents}
    [] OTHER -> {}

ObjPaths == ObjPathsFrom(input0, <<>>)

IsProperPrefix(p, q) == Len(p) < Len(q) /\ SubSeq(q, 1, Len(p)) = p
IsBelow(p, q) == IsProperPrefix(p, q)

\* The object at path is the direct value of an '@'-prefixed property.
DetachedAt(path) ==
  /\ path # <<>>
  /\ LET holder == GetAt(input0, Front(path)) IN
       holder.k = "obj" /\ StartsWithAt(holder.props[Last(path)].n)

\* Objects entered / detach boundaries crossed on the way from p down to q.
Levels(p, q) ==
  Cardinality({r \in ObjPaths : IsBelow(p, r) /\ (r = q \/ IsBelow(r, q))})
Boundaries(p, q) ==
  Cardinality({r \in ObjPaths : IsBelow(p, r) /\ (r = q \/ IsBelow(r, q)) /\ DetachedAt(r)})

Min(S) == CHOOSE m \in S : \A n \in S : m <= n

Records == Range(produced)
ClosureOf(rec) ==
  IF HasKey(rec.ents, "__closure") THEN GetKey(rec.ents, "__closure").ents ELSE <<>>
\* the records of the detached objects below the object of record e
DetachedBelow(e) == {q \in Records : IsBelow(e.path, q.path) /\ DetachedAt(q.path)}
\* every object below e's object has returned its record
CompleteBelow(e) ==
  \A r \in ObjPaths : IsBelow(e.path, r) => \E q \in Records : q.path = r

----------------------------------------------------------------------------
\* One top-level call on a serializer of its own, as a function of the object
\* tree: the value traverse_value returns for v when len(detach_lineage) is n
\* (val), v as the call leaves it (left), the detach_helper calls made below
\* v, in order (events), and the save_object calls made (saves).

RECURSIVE Decomposed(_, _, _)
RECURSIVE DecomposedProps(_, _, _, _)
RECURSIVE DecomposedItems(_, _, _, _)
RECURSIVE DecomposedEnts(_, _, _, _)
RECURSIVE Tracked(_, _)

\* family_tree's entry of an object after the detach_helper calls below it
Tracked(events, entries) ==
  IF events = <<>> THEN entries
  ELSE Tracked(Tail(events), TrackDepth(entries, Head(events).ref, Head(events).depth))

Decomposed(v, detach, n) ==
  CASE v.k = "obj" ->
         LET r == DecomposedProps(v, 1, n + 1,
                    [acc |-> <<Prop("id", StrV(""))>>, left |-> v,
                     events |-> <<>>, saves |-> <<>>])
             hasClosure == r.events # <<>>
             closure == Closure(Tracked(r.events, <<>>), n)
             hash == hash_obj(Dct(HashInput(r.acc,
                       IF hasClosure THEN PutKey(r.acc, "__closure", closure)
                       ELSE r.acc)))
             ob1 == PutKey(r.acc, "id", StrV(hash))
             rec == Dct(IF hasClosure THEN PutKey(ob1, "__closure", closure) ELSE ob1)
         IN [val |-> rec, left |-> r.left, events |-> r.events,
             saves |-> IF ShouldWrite(detach)
                       THEN Append(r.saves, [id |-> hash,
                                             serialized_object |-> json_dumps(rec)])
                       ELSE r.saves]
    [] v.k = "list" ->
         LET r == DecomposedItems(v, 1, n,
                    [acc |-> <<>>, left |-> v, events |-> <<>>, saves |-> <<>>])
         IN [val |-> Lst(r.acc), left |-> r.left, events |-> r.events,
             saves |-> r.saves]
    [] v.k = "dict" ->
         LET r == DecomposedEnts(v, 1, n,
                    [left |-> v, events |-> <<>>, saves |-> <<>>])
         IN [val |-> r.left, left |-> r.left, events |-> r.events, saves |-> r.saves]
    [] OTHER ->
         [val |-> Flatten(v), left |-> v, events |-> <<>>, saves |-> <<>>]

\* the property loop of an object at level n, from the i-th property on
DecomposedProps(v, i, n, st) ==
  IF i > Len(v.props) THEN st
  ELSE
    LET p == v.props[i] IN
    IF Skip(p.n, p.v) THEN DecomposedProps(v, i + 1, n, st)
    ELSE IF IsPrimitive(p.v)
    THEN DecomposedProps(v, i + 1, n, [st EXCEPT !.acc = PutKey(@, p.n, p.v)])
    ELSE
      LET detach == p.v.k = "obj" /\ WantsDetach(p.n)
          r == Decomposed(p.v, detach, n)
          ref_hash == RefHashOf(r.val)
      IN DecomposedProps(v, i + 1, n,
           [acc |-> PutKey(st.acc, p.n,
                      IF detach THEN ReferenceMarker(ref_hash) ELSE r.val),
            left |-> [st.left EXCEPT !.props[i].v = r.left],
            events |-> st.events \o r.events \o
                       (IF detach THEN <<[ref |-> ref_hash, depth |-> n]>> ELSE <<>>),
            saves |-> st.saves \o r.saves])

\* the list comprehension from the i-th element on
DecomposedItems(v, i, n, st) ==
  IF i > Len(v.items) THEN st
  ELSE
    LET r == Decomposed(v.items[i], ContainedFlag(""), n) IN
    DecomposedItems(v, i + 1, n,
      [acc |-> Append(st.acc, r.val),
       left |-> [st.left EXCEPT !.items[i] = r.left],
       events |-> st.events \o r.events,
       saves |-> st.saves \o r.saves])

\* the loop over a mapping's items from the i-th item on
DecomposedEnts(v, i, n, st) ==
  IF i > Len(v.ents) THEN st
  ELSE IF IsPrimitive(v.ents[i].v) THEN DecomposedEnts(v, i + 1, n, st)
  ELSE
    LET r == Decomposed(v.ents[i].v, ContainedFlag(""), n) IN
    DecomposedEnts(v, i + 1, n,
      [left |-> [st.left EXCEPT !.ents[i].v = r.val],
       events |-> st.events \o r.events,
       saves |-> st.saves \o r.saves])

\* what a call on a serializer of its own with one write transport returns
\* for the tree, and what that transport receives
Alone(input) ==
  LET r == Decomposed(input, TRUE, 0)
  IN [hash |-> RefHashOf(r.val), rec |-> r.val, saves |-> r.saves, left |-> r.left]

\* The running call returned what a serializer of its own returns, and every
\* write transport received what that one's would.
ReturnedAsAlone ==
  /\ ret.hash = Alone(input0).hash
  /\ ret = Returned(Alone(input0).hash, Alone(input0).rec)
  /\ tree = Alone(input0).left

----------------------------------------------------------------------------
\* Claims

\* C1 (as stated): every closure entry (h, d) of every record equals the
\* minimum, over the detached objects of hash h below the record's object, of
\* the number of detach boundaries crossed on the way; inlined objects on the
\* way add nothing.
C1_DepthCountsDetachBoundaries ==
  \A e \in Records : \A j \in DOMAIN ClosureOf(e.rec) :
    LET h == ClosureOf(e.rec)[j].n
        Q == {q \in DetachedBelow(e) : q.id = h}
    IN Q # {} /\ ClosureOf(e.rec)[j].v.i = Min({Boundaries(e.path, q.path) : q \in Q})

\* C1 (amended): every closure entry (h, d) of every record equals the
\* minimum, over the detached objects of hash h below the record's object, of
\* the number of objects entered on the way down to and including the detached
\* object, whether they are detached or inlined; sequences and mappings add
\* nothing.
C1_DepthCountsObjectLevels ==
  \A e \in Records : \A j \in DOMAIN ClosureOf(e.rec) :
    LET h == ClosureOf(e.rec)[j].n
        Q == {q \in DetachedBelow(e) : q.id = h}
    IN Q # {} /\ ClosureOf(e.rec)[j].v.i = Min({Levels(e.path, q.path) : q \in Q})

\* C1 witness: the root's record lists, at depth 1, a hash that is detached
\* directly below the root and also three objects down.
C1_Witness ==
  /\ pc = "done" /\ input0 = MinPathScenario
  /\ \E e \in Records :
       /\ e.path = <<>>
       /\ \E j \in DOMAIN ClosureOf(e.rec) : ClosureOf(e.rec)[j].v.i = 1
       /\ {Levels(e.path, q.path) : q \in DetachedBelow(e)} = {1, 3}

\* C2: a record carries a closure exactly when some object below its object was
\* detached, and the closure's keys are exactly the hashes of all detached
\* objects below it, at any nesting level.
C2_ClosureListsAllDetached ==
  \A e \in Records :
    /\ CompleteBelow(e)
    /\ HasKey(e.rec.ents, "__closure") <=> (DetachedBelow(e) # {})
    /\ {ClosureOf(e.rec)[j].n : j \in DOMAIN ClosureOf(e.rec)}
         = {q.id : q \in DetachedBelow(e)}
    /\ \A i, j \in DOMAIN ClosureOf(e.rec) :
         ClosureOf(e.rec)[i].n = ClosureOf(e.rec)[j].n => i = j

\* C2 witness: a finished root whose closure lists a detached object that lies
\* below an inlined object and one that lies below a detached object.
C2_Witness ==
  /\ pc = "done"
  /\ \E e \in Records :
       /\ e.path = <<>>
       /\ \E q \in DetachedBelow(e) : Len(q.path) >= 2 /\ ~DetachedAt(Front(q.path))
  /\ \E e \in Records :
       /\ e.path = <<>>
       /\ \E q \in DetachedBelow(e) : Len(q.path) = 2 /\ DetachedAt(Front(q.path))

\* The properties of the object at path p that hold an object to detach.
DetachedProps(p) ==
  LET o == GetAt(input0, p) IN
  {i \in DOMAIN o.props :
     /\ StartsWithAt(o.props[i].n) /\ o.props[i].v.k = "obj"
     /\ ~StartsWithDunder(o.props[i].n)}

\* C3: for every detached object-valued property, the parent's record holds
\* there a reference marker whose referencedId is the id of the child's own
\* record, under which the child was sent to every write transport; it is not
\* the parent's id and the child's record is not inlined.
C3_MarkerNamesChild ==
  \A e \in Records : \A i \in DetachedProps(e.path) :
    LET name == GetAt(input0, e.path).props[i].n IN
    \E c \in Records :
      /\ c.path = e.path \o <<i>>
      /\ GetKey(e.rec.ents, name) = ReferenceMarker(c.id)
      /\ GetKey(e.rec.ents, name) # c.rec
      /\ c.id = GetKey(c.rec.ents, "id").s
      /\ c.id # e.id
      /\ \A t \in DOMAIN sinks : \E j \in DOMAIN sinks[t] :
           /\ sinks[t][j].id = c.id
           /\ sinks[t][j].serialized_object = json_dumps(c.rec)

\* C3 witness: a finished parent with a detached child and a write transport
C3_Witness ==
  /\ pc = "done" /\ Len(sinks) >= 1
  /\ \E e \in Records : DetachedProps(e.path) # {} /\ e.path # <<>>

\* The records, in the order they were finished, of the root and of the
\* objects detached by their parent.
RootOrDetached == SelectSeq(produced, LAMBDA e : e.path = <<>> \/ DetachedAt(e.path))

\* C4: when write_json has returned, every object visited has one record;
\* every write transport has received exactly the records of the root and of
\* the objects detached by their parent, one save_object call each, keyed by
\* the record's id; an inlined object's record was sent to none.
C4_SavedIffRootOrDetached ==
  pc \in {"done", "read"} =>
    /\ {e.path : e \in Records} = ObjPaths
    /\ Len(produced) = Cardinality(ObjPaths)
    /\ \A t \in DOMAIN sinks :
         sinks[t] = [j \in DOMAIN RootOrDetached |->
                       [id |-> RootOrDetached[j].id,
                        serialized_object |-> json_dumps(RootOrDetached[j].rec)]]

\* C4 witness: write_json returned after visiting a detached and an inlined
\* object, with two write transports.
C4_Witness ==
  /\ pc = "done" /\ Len(sinks) = 2
  /\ \E e \in Records : DetachedAt(e.path)
  /\ \E e \in Records : e.path # <<>> /\ ~DetachedAt(e.path)

\* C5: in every write transport's sequence of save_object calls, the save of
\* an object comes before the save of every object above it, and the root's
\* record is saved last.
C5_WritesBottomUp ==
  \A t \in DOMAIN sinks :
    /\ Len(sinks[t]) <= Len(RootOrDetached)
    /\ \A i, j \in DOMAIN sinks[t] :
         /\ sinks[t][i].id = RootOrDetached[i].id
         /\ IsBelow(RootOrDetached[j].path, RootOrDetached[i].path) => i < j
    /\ pc \in {"done", "read"} =>
         /\ Len(sinks[t]) >= 1
         /\ Last(sinks[t]).id = ret.hash
         /\ Last(RootOrDetached).path = <<>>

\* C5 witness: three saves, of a detached object below a detached object below
\* the root.
C5_Witness ==
  /\ pc = "done" /\ Len(sinks) >= 1
  /\ \E i, j \in DOMAIN RootOrDetached :
       /\ RootOrDetached[i].path # <<>>
       /\ IsBelow(RootOrDetached[i].path, RootOrDetached[j].path)
       /\ Len(sinks[1]) >= 3

\* The object o is restored as r: r is an object with every property of o that
\* the skip rule keeps, each restored in turn; sequences and mappings are
\* restored element by element; a primitive is itself.
RECURSIVE Restored(_, _)
Restored(o, r) ==
  CASE o.k = "obj" ->
         /\ r.k = "obj"
         /\ \A i \in DOMAIN o.props :
              (~Falsy(o.props[i].v) /\ ~StartsWithDunder(o.props[i].n)) =>
                /\ HasKey(r.props, o.props[i].n)
                /\ Restored(o.props[i].v, GetKey(r.props, o.props[i].n))
    [] o.k = "list" ->
         /\ r.k = "list" /\ Len(r.items) = Len(o.items)
         /\ \A i \in DOMAIN o.items : Restored(o.items[i], r.items[i])
    [] o.k = "dict" ->
         /\ r.k = "dict" /\ Len(r.ents) = Len(o.ents)
         /\ \A i \in DOMAIN o.ents :
              /\ r.ents[i].n = o.ents[i].n
              /\ Restored(o.ents[i].v, r.ents[i].v)
    [] OTHER -> r = o

\* read_json was given what write_json returned, with a read transport backed
\* by what the first write transport received.
ReadBack ==
  /\ rd.phase = "read" /\ Len(sinks) >= 1
  /\ rd.rt = MemoryTransport(Backing)
  /\ rd.obj_string = ret.json

\* C6: recomposing the record write_json returned, with a read transport that
\* holds everything the write transports received, yields an object equal to
\* the input property for property (but for the skipped properties), detached
\* children restored as objects.
C6_RoundTrip ==
  ReadBack => rd.out.err.kind = "none" /\ Restored(input0, rd.out.val)

\* The referencedIds of the reference markers recompose_base meets as property
\* values, in order: in the record itself, in the records fetched for them, and
\* in record-shaped values inside sequences and mappings.
RECURSIVE MarkersMet(_, _, _)
RECURSIVE MarkersIn(_, _, _)
MarkersMet(rt, rec, i) ==
  IF i > Len(rec.ents) THEN <<>>
  ELSE
    LET v == rec.ents[i].v
        here ==
          IF rec.ents[i].n = "__closure" \/ IsPrimitive(v) THEN <<>>
          ELSE IF v.k = "dict" /\ HasKey(v.ents, "referencedId")
          THEN LET id == GetKey(v.ents, "referencedId").s IN
               <<id>> \o (IF get_object(rt, id) = Null THEN <<>>
                          ELSE MarkersMet(rt, json_loads(get_object(rt, id)), 1))
          ELSE MarkersIn(rt, v, 1)
    IN here \o MarkersMet(rt, rec, i + 1)
MarkersIn(rt, v, i) ==
  CASE v.k = "list" ->
         IF i > Len(v.items) THEN <<>>
         ELSE MarkersIn(rt, v.items[i], 1) \o MarkersIn(rt, v, i + 1)
    [] v.k = "dict" /\ HasKey(v.ents, "speckleType") -> MarkersMet(rt, v, 1)
    [] v.k = "dict" ->
         IF i > Len(v.ents) THEN <<>>
         ELSE MarkersIn(rt, v.ents[i].v, 1) \o MarkersIn(rt, v, i + 1)
    [] OTHER -> <<>>

\* ids up to and including the first one the transport has nothing for
RECURSIVE UntilMissing(_, _)
UntilMissing(rt, ids) ==
  IF ids = <<>> THEN <<>>
  ELSE IF get_object(rt, Head(ids)) = Null THEN <<Head(ids)>>
  ELSE <<Head(ids)>> \o UntilMissing(rt, Tail(ids))

\* C7: with a read transport, recomposition calls get_object once for every
\* reference marker it meets as a property value, in order; when a call returns
\* nothing the recomposition raises the resolution error for that id, returns
\* no object, and that call is the last one.
C7_OneFetchPerMarker ==
  (rd.phase = "read" /\ rd.rt.on /\ ~Falsy(rd.obj_string)) =>
    LET out == rd.out
        missing == {j \in DOMAIN out.calls : get_object(rd.rt, out.calls[j]) = Null}
    IN
    /\ out.calls = UntilMissing(rd.rt, MarkersMet(rd.rt, json_loads(rd.obj_string), 1))
    /\ missing \subseteq {Len(out.calls)}
    /\ (missing # {}) <=> (out.err.kind = "resolution")
    /\ out.err.kind = "resolution" =>
         /\ out.val = Null
         /\ out.err.ref = Last(out.calls)
    /\ out.err.kind \in {"none", "resolution"}

\* C7 witness: a fetch that succeeded, then one that returned nothing
C7_Witness ==
  /\ rd.phase = "read" /\ rd.rt.on
  /\ rd.out.err.kind = "resolution"
  /\ Len(rd.out.calls) >= 2

\* The record, or a record-shaped property value of it that only primitives
\* precede, carries a closure.
ReachesClosure(rec) ==
  \/ HasKey(rec.ents, "__closure")
  \/ \E i \in DOMAIN rec.ents :
       /\ IsRecordShaped(rec.ents[i].v)
       /\ HasKey(rec.ents[i].v.ents, "__closure")
       /\ \A j \in 1..(i - 1) : IsPrimitive(rec.ents[j].v)

\* C8: without a read transport, recomposition that reaches a record carrying
\* a closure raises the configuration error with no property of that record
\* assigned and no get_object call made, whether or not the record holds a
\* reference marker.
C8_ClosureNeedsTransport ==
  (rd.phase = "read" /\ ~rd.rt.on /\ ~Falsy(rd.obj_string)
     /\ ReachesClosure(json_loads(rd.obj_string))) =>
    /\ rd.out.err.kind = "configuration"
    /\ rd.out.err.partial = Obj(<<>>)
    /\ rd.out.calls = <<>>
    /\ rd.out.val = Null

\* C8 witness: the closure is met in a nested record, after a primitive of the
\* outer record
C8_Witness ==
  /\ rd.phase = "read" /\ ~rd.rt.on
  /\ rd.obj_string = json_dumps(NestedClosureRecord)
  /\ rd.out.err.kind = "configuration"

\* C9: within one write_json call, objects of equal content get equal ids and
\* equal records wherever they are in the tree, so the reference markers of
\* equal detached contents are equal, and all save_object calls for one hash
\* carry the same payload, closure included.
C9_SameContentSameRecord ==
  /\ \A p, q \in Records :
       GetAt(input0, p.path) = GetAt(input0, q.path) => p.id = q.id /\ p.rec = q.rec
  /\ \A e, f \in Records : \A i \in DetachedProps(e.path), j \in DetachedProps(f.path) :
       GetAt(input0, e.path \o <<i>>) = GetAt(input0, f.path \o <<j>>) =>
         GetKey(e.rec.ents, GetAt(input0, e.path).props[i].n)
           = GetKey(f.rec.ents, GetAt(input0, f.path).props[j].n)
  /\ \A t \in DOMAIN sinks : \A i, j \in DOMAIN sinks[t] :
       sinks[t][i].id = sinks[t][j].id =>
         sinks[t][i].serialized_object = sinks[t][j].serialized_object

\* C9 witness: the same content, with a closure of its own, saved twice from
\* two depths of the tree
C9_Witness ==
  /\ pc = "done" /\ Len(sinks) >= 1
  /\ \E i, j \in DOMAIN RootOrDetached :
       /\ i # j
       /\ RootOrDetached[i].id = RootOrDetached[j].id
       /\ Len(RootOrDetached[i].path) # Len(RootOrDetached[j].path)
       /\ HasKey(RootOrDetached[i].rec.ents, "__closure")
       /\ sinks[1][i].id = sinks[1][j].id

RecordKeys(text) == {json_loads(text).ents[i].n : i \in DOMAIN json_loads(text).ents}

\* C10 (as stated): decomposing {a: 1, b: 0, c: "", d: null} returns a record
\* whose only key is id.
C10_OnlyId ==
  (pc = "done" /\ input0 = FalsyScenario) => RecordKeys(ret.json) = {"id"}

\* C10 (amended): decomposing {a: 1, b: 0, c: "", d: null} returns a record
\* holding exactly the id and a = 1; b, c and d are dropped.
C10_IdAndTruthyOnly ==
  (pc = "done" /\ input0 = FalsyScenario) =>
    json_loads(ret.json) =
      Dct(<<Prop("id", StrV(ret.hash)), Prop("a", IntV(1))>>)

\* C10 witness: write_json has returned for that object
C10_Witness ==
  /\ pc = "done" /\ input0 = FalsyScenario
  /\ ret.hash = hash_obj(Dct(<<Prop("id", StrV("")), Prop("a", IntV(1))>>))

\* C11 (as stated): recomposing the record {referencedId: H} with a read
\* transport that returns nothing for H raises the resolution error naming H
\* and the transport's name, and returns no object.
C11_BareMarkerFailsToResolve ==
  (rd.phase = "read" /\ rd.obj_string = json_dumps(BareMarkerRecord)
     /\ rd.rt.on /\ get_object(rd.rt, "H") = Null) =>
    /\ rd.out.err.kind = "resolution"
    /\ rd.out.err.ref = "H"
    /\ rd.out.err.name = rd.rt.name
    /\ rd.out.val = Null

\* C13: every depth in the closure of every record produced, and in every
\* closure_table entry, is an integer of at least 1.
C13_ClosureDepthsPositive ==
  /\ \A e \in Records : \A j \in DOMAIN ClosureOf(e.rec) :
       ClosureOf(e.rec)[j].v.k = "int" /\ ClosureOf(e.rec)[j].v.i >= 1
  /\ \A h \in DOMAIN closure_table : \A j \in DOMAIN closure_table[h].ents :
       closure_table[h].ents[j].v.k = "int" /\ closure_table[h].ents[j].v.i >= 1

\* C13 witness: a finished call in which an inlined object below the root has
\* a closure of its own and the root's closure holds a depth of 1 and a larger
\* one.
C13_Witness ==
  /\ pc = "done"
  /\ \E e \in Records :
       /\ e.path # <<>> /\ ~e.detached /\ ClosureOf(e.rec) # <<>>
  /\ \E e \in Records :
       /\ e.path = <<>>
       /\ \E i, j \in DOMAIN ClosureOf(e.rec) :
            ClosureOf(e.rec)[i].v.i = 1 /\ ClosureOf(e.rec)[j].v.i >= 2

\* C16 (as stated): recompose_base leaves the record it was given as it was,
\* closure field and nested mappings included.
C16_RecordUnchanged ==
  rd.phase = "recompose" => rd.out.arg = rd.obj

\* C17 (as stated): when write_json has returned, the object tree it was given
\* is what it was at the call.
C17_InputUnchanged ==
  pc \in {"done", "read"} => tree = input0

\* The encoded value, inside the record r of the object v, of what lies at path
\* below v.
RECURSIVE EncodedAt(_, _, _)
EncodedAt(v, r, path) ==
  IF path = <<>> THEN r
  ELSE LET i == Head(path) IN
    CASE v.k = "obj" -> EncodedAt(v.props[i].v, GetKey(r.ents, v.props[i].n), Tail(path))
      [] v.k = "list" -> EncodedAt(v.items[i], r.items[i], Tail(path))
      [] v.k = "dict" -> EncodedAt(v.ents[i].v, r.ents[i].v, Tail(path))

\* The path of the object that holds, in a sequence or mapping that is the
\* value of one of its properties, what lies at path.
RECURSIVE HolderOf(_)
HolderOf(path) ==
  IF GetAt(input0, Front(path)).k = "obj" THEN Front(path) ELSE HolderOf(Front(path))

\* The object at path lies inside a sequence or mapping that is the value of
\* an '@'-prefixed property.
InDetachNamedCollection(path) ==
  /\ path # <<>>
  /\ GetAt(input0, Front(path)).k # "obj"
  /\ LET h == HolderOf(path) IN
       StartsWithAt(GetAt(input0, h).props[path[Len(h) + 1]].n)

\* C18: an object inside a sequence or mapping held by an '@'-prefixed
\* property is traversed with detach flag false; its full record, not a
\* reference marker, stands at its place in the record of the object that
\* holds the collection; no save_object call is made for it and no closure
\* lists its hash on its account.
C18_CollectionsNeverDetach ==
  \A e \in Records : InDetachNamedCollection(e.path) =>
    /\ ~e.detached
    /\ \A a \in Records : a.path = HolderOf(e.path) =>
         LET rel == SubSeq(e.path, Len(a.path) + 1, Len(e.path)) IN
         /\ EncodedAt(GetAt(input0, a.path), a.rec, rel) = e.rec
         /\ ~HasKey(EncodedAt(GetAt(input0, a.path), a.rec, rel).ents, "referencedId")
    /\ \A t \in DOMAIN sinks :
         Cardinality({j \in DOMAIN sinks[t] : sinks[t][j].id = e.id})
           = Cardinality({j \in DOMAIN RootOrDetached : RootOrDetached[j].id = e.id
                                                         /\ j <= Len(sinks[t])})
    /\ \A a \in Records :
         (IsBelow(a.path, e.path) /\ \A q \in DetachedBelow(a) : q.id # e.id) =>
           \A j \in DOMAIN ClosureOf(a.rec) : ClosureOf(a.rec)[j].n # e.id

\* C18 witness: a finished call on an object holding objects in an '@'-named
\* sequence and in an '@'-named mapping, with a write transport
C18_Witness ==
  /\ pc = "done" /\ Len(sinks) >= 1
  /\ \E e, f \in Records :
       /\ InDetachNamedCollection(e.path) /\ InDetachNamedCollection(f.path)
       /\ GetAt(input0, Front(e.path)).k = "list"
       /\ GetAt(input0, Front(f.path)).k = "dict"
       /\ \A t \in DOMAIN sinks : \A j \in DOMAIN sinks[t] :
            sinks[t][j].id # e.id /\ sinks[t][j].id # f.id

OnlyWriteJson ==
  /\ entry \in {"none", "write_json"}
  /\ \A i \in DOMAIN history : history[i].entry = "write_json"

\* C14 (as stated): during a write_json call detach_lineage and lineage have
\* equal length, also at each save_object and each detach_helper call, and
\* both are empty when no call is in progress.
C14_StacksAlwaysLevel ==
  OnlyWriteJson =>
    /\ Len(detach_lineage) = Len(lineage)
    /\ \A j \in DOMAIN probes : probes[j].detach_lineage = probes[j].lineage
    /\ pc # "writing" => detach_lineage = <<>> /\ lineage = <<>>

\* C14 (amended): during a write_json call detach_lineage and lineage have
\* equal length at every step of the property loop and at each detach_helper
\* call; at each save_object call detach_lineage is one shorter than lineage;
\* both are empty before the first call and after a call that returned, and
\* after a call that save_object aborted they are as they were at that
\* save_object call.
C14_StacksLevelButAtSave ==
  OnlyWriteJson =>
    /\ pc = "writing" => Len(detach_lineage) = Len(lineage) /\ Len(lineage) >= 1
    /\ \A j \in DOMAIN probes :
         /\ probes[j].at = "detach_helper" =>
              probes[j].detach_lineage = probes[j].lineage /\ probes[j].lineage >= 1
         /\ probes[j].at = "save_object" =>
              probes[j].detach_lineage = probes[j].lineage - 1
    /\ pc \in {"idle", "done", "read"} => detach_lineage = <<>> /\ lineage = <<>>
    /\ pc = "aborted" =>
         /\ Len(detach_lineage) = Last(probes).detach_lineage
         /\ Len(lineage) = Last(probes).lineage
         /\ Last(probes).at = "save_object"

\* C14 witness: a write_json call returned, after one that save_object
\* aborted, having made a detach_helper call and a save_object call two
\* objects down.
C14_Witness ==
  /\ pc = "done" /\ OnlyWriteJson /\ Len(history) = 2
  /\ history[1].outcome = "aborted"
  /\ \E i, j \in DOMAIN probes :
       /\ probes[i].at = "detach_helper"
       /\ probes[j].at = "save_object" /\ probes[j].lineage >= 2

\* what write transport t held when the running call began
HeldBefore(t) ==
  LET earlier == IF pc \in {"done", "aborted"} THEN Front(history) ELSE history
  IN IF earlier = <<>> THEN <<>> ELSE Last(earlier).sinks[t]
\* the save_object calls transport t received in the running call
SavedNow(t) == SubSeq(sinks[t], Len(HeldBefore(t)) + 1, Len(sinks[t]))

\* the first step of a top-level call
CallBegins == pc = "writing" /\ stack = <<BaseFrame(<<>>)>>

\* C15 (as stated): the traversal scope is new when a top-level call begins
\* and gone when it has ended, by return or by an exception of a write
\* transport; a call that returns, whatever calls came before it on the
\* serializer, returns what a serializer of its own returns and sends its
\* write transports the same records.
C15_ScopeFreshAndDiscarded ==
  /\ CallBegins =>
       Len(detach_lineage) = 1 /\ Len(lineage) = 1 /\ family_tree = <<>>
  /\ pc \in {"idle", "done", "aborted"} =>
       detach_lineage = <<>> /\ lineage = <<>> /\ family_tree = <<>>
  /\ pc = "done" =>
       /\ ReturnedAsAlone
       /\ \A t \in DOMAIN sinks : SavedNow(t) = Alone(input0).saves

\* Tokens, and hashes of records, that came from the instance that is running.
Mine(u) == drew[u] = who
MyHashes == {e.id : e \in Records}

\* C19 (as stated): whatever the interleaving of the calls of two serializer
\* instances, the lineage, family_tree and closure_table of the one that is
\* running hold only what its own call put there, and a call that returns has
\* returned what it returns when run alone and sent its write transport the
\* same records.
C19_InstancesDisjoint ==
  /\ \A j \in DOMAIN lineage : Mine(lineage[j])
  /\ \A u \in DOMAIN family_tree : Mine(u)
  /\ DOMAIN closure_table \subseteq MyHashes
  /\ pc = "done" =>
       /\ ReturnedAsAlone
       /\ \A t \in DOMAIN sinks : sinks[t] = Alone(input0).saves

====
